---- MODULE Spec2Model ----
(***************************************************************************)
(* github-releases-notifier: the release checker (Checker.Run, with        *)
(* LoadReleases / SaveReleases) and the dispatch loop of main, which       *)
(* receives from the unbuffered channel and calls the Slack sender.        *)
(***************************************************************************)
EXTENDS Integers, Sequences, FiniteSets, TLC

(* ------------------------------------------------------------------ *)
(* Bounds                                                             *)
(* ------------------------------------------------------------------ *)

\* Release instants are 1..MaxTime.
MaxTime == 2

(* ------------------------------------------------------------------ *)
(* Values                                                             *)
(* ------------------------------------------------------------------ *)

\* The -r arguments the model runs with: two well-formed keys and one
\* without the owner/name separator.
WatchKeys == {"acme/widget", "foo/bar", "widget"}

\* strings.Split(repoName, "/")
Split(repoName) ==
    CASE repoName = "acme/widget" -> <<"acme", "widget">>
      [] repoName = "foo/bar"     -> <<"foo", "bar">>
      [] OTHER                    -> <<repoName>>

WellFormed == {k \in WatchKeys : Len(Split(k)) >= 2}

\* Keys of the releases map in the order encoding/json writes them
\* (sorted by key).
KeyOrder == <<"acme/widget", "foo/bar">>

\* Config.Repositories: the watch lists the model is run with.
WatchLists ==
    { <<"acme/widget", "foo/bar">>,
      <<"foo/bar", "foo/bar">>,
      <<"acme/widget", "widget", "foo/bar">> }

\* Release names the Release Source returns.
ReleaseNames == {"v1.0.0", "v1.1.0-rc1"}

\* The releases the Release Source has, as <<name, instant>>: v1.0.0 at
\* instant 1, and at every later instant a release of each name.
Catalogue ==
    {<<"v1.0.0", 1>>} \cup {<<n, t>> : n \in ReleaseNames, t \in 2..MaxTime}

\* Release.IsNonstable: the name carries a pre-release marker.
IsNonstable(release) == release.Name \in {"v1.1.0-rc1"}

\* time.Time: an instant and the offset of its zone.
Offsets == {0, 1}
Time == [unix : 1..MaxTime, offset : Offsets]

\* The times GitHub returns are UTC.
UTC(n) == [unix |-> n, offset |-> 0]

\* Mutant of After: any other instant counts as later.
AfterOrBefore(t, u) == t.unix # u.unix

\* Mutant of After: >= in place of >.
AfterOrEqual(t, u) == t.unix >= u.unix

\* Time.After
After(t, u) == t.unix > u.unix

\* The Repository type, with the fields the checker and the dispatch
\* loop read: Owner, Name, Release.Name, Release.PublishedAt.
MkRepository(owner, name, relName, at) ==
    [Owner |-> owner, Name |-> name,
     Release |-> [Name |-> relName, PublishedAt |-> at]]

\* Repository{}: the zero value.
ZeroRepository == MkRepository("", "", "", [unix |-> 0, offset |-> 0])

\* repository.Owner + "/" + repository.Name
RepoKey(r) == CHOOSE k \in WellFormed : Split(k) = <<r.Owner, r.Name>>


(* ------------------------------------------------------------------ *)
(* The releases map and the releases file                             *)
(* ------------------------------------------------------------------ *)

\* A map[string]Repository value: nil, or a map.
NilMap == [nil |-> TRUE, m |-> [k \in {} |-> ZeroRepository]]
MkMap(f) == [nil |-> FALSE, m |-> f]
EmptyMap == MkMap([k \in {} |-> ZeroRepository])

\* _, ok := c.releases[repoName]   (a nil map has no keys)
Has(rel, k) == k \in DOMAIN rel.m

\* c.releases[repoName] = nextRepo on a map that is not nil
Put(rel, k, v) ==
    MkMap([x \in DOMAIN rel.m \cup {k} |-> IF x = k THEN v ELSE rel.m[x]])

\* time.Time.MarshalJSON: RFC 3339, the wall clock of the zone followed
\* by the zone's offset.
FormatTime(t) == [wall |-> t.unix + t.offset, offset |-> t.offset]

\* Mutant of ParseTime: the wall clock is taken for UTC.
ParseTimeAsUTC(s) == [unix |-> s.wall, offset |-> 0]

\* time.Time.UnmarshalJSON
ParseTime(s) == [unix |-> s.wall - s.offset, offset |-> s.offset]

EncodeRepository(r) ==
    [Owner |-> r.Owner, Name |-> r.Name,
     Release |-> [Name |-> r.Release.Name,
                  PublishedAt |-> FormatTime(r.Release.PublishedAt)]]

DecodeRepository(j) ==
    [Owner |-> j.Owner, Name |-> j.Name,
     Release |-> [Name |-> j.Release.Name,
                  PublishedAt |-> ParseTime(j.Release.PublishedAt)]]

\* The content at c.filepath: no file, a file that cannot be read, bytes
\* that are no JSON, the JSON null, or a JSON object given as its members
\* in file order.
NoFile   == [kind |-> "missing", members |-> <<>>]
Unreadable == [kind |-> "unreadable", members |-> <<>>]
Garbage  == [kind |-> "garbage", members |-> <<>>]
JSONNull == [kind |-> "null",    members |-> <<>>]
JSONObject(members) == [kind |-> "object", members |-> members]

SortedKeys(S) == SelectSeq(KeyOrder, LAMBDA k : k \in S)

\* json.MarshalIndent(c.releases, "", "  "): a nil map is written as
\* null, a map as an object with its keys sorted.
Marshal(rel) ==
    IF rel.nil THEN JSONNull
    ELSE LET ks == SortedKeys(DOMAIN rel.m)
         IN  JSONObject([i \in 1..Len(ks) |->
                 [key |-> ks[i], value |-> EncodeRepository(rel.m[ks[i]])]])

RECURSIVE PutMembers(_, _)
PutMembers(f, members) ==
    IF members = <<>> THEN f
    ELSE LET h == Head(members)
             g == [x \in DOMAIN f \cup {h.key} |->
                      IF x = h.key THEN DecodeRepository(h.value) ELSE f[x]]
         IN  PutMembers(g, Tail(members))

\* json.Unmarshal(data, &c.releases): a syntax error leaves the map as it
\* was; null sets it to nil; an object is decoded into the map the
\* checker has (a new one when it is nil), a later duplicate of a key
\* overwriting an earlier one.
Unmarshal(data, rel) ==
    CASE data.kind = "garbage" -> [err |-> TRUE,  releases |-> rel]
      [] data.kind = "null"    -> [err |-> FALSE, releases |-> NilMap]
      [] OTHER                 ->
            [err |-> FALSE, releases |-> MkMap(PutMembers(rel.m, data.members))]

\* Mutant of LoadReleases: a missing file is an error like any other.
LoadReleasesMissingIsError(data, rel) ==
    IF data.kind \in {"missing", "unreadable"}
    THEN [err |-> TRUE, releases |-> rel]
    ELSE Unmarshal(data, rel)

\* Checker.LoadReleases: a file that does not exist gives an empty map
\* and no error, any other error of os.ReadFile is returned, and what
\* was read is unmarshalled.
LoadReleases(data, rel) ==
    CASE data.kind = "missing"    -> [err |-> FALSE, releases |-> EmptyMap]
      [] data.kind = "unreadable" -> [err |-> TRUE,  releases |-> rel]
      [] OTHER                    -> Unmarshal(data, rel)

\* Mutant of SaveReleases: a write that reports success leaves the file
\* as it was.
SaveReleasesKeepsFile(rel, data) ==
    { [err |-> FALSE, file |-> data],
      [err |-> TRUE,  file |-> data],
      [err |-> TRUE,  file |-> Garbage] }

\* Checker.SaveReleases: the outcomes of marshalling the map and writing
\* the file.  A write that fails leaves the old content or a truncated
\* file.
SaveReleases(rel, data) ==
    { [err |-> FALSE, file |-> Marshal(rel)],
      [err |-> TRUE,  file |-> data],
      [err |-> TRUE,  file |-> Garbage] }

(* ------------------------------------------------------------------ *)
(* State                                                              *)
(* ------------------------------------------------------------------ *)

VARIABLES
    repositories,     \* Config.Repositories, the watch list
    IgnoreNonstable,  \* Config.IgnoreNonstable
    releases,         \* Checker.releases
    file,             \* the content at Checker.filepath
    pc,               \* where Checker.Run is
    idx,              \* position of the range loop in repositories
    nextRepo,         \* nextRepo of Run, from the query to the end of the iteration
    log,              \* the last message Run logged
    dpc,              \* where the receive loop of main is
    repository,       \* the loop variable of the receive loop
    sendErr,          \* err of slack.Send, until the next value is received
    queried,          \* positions c.query was called for in this cycle
    emitted,          \* per key, the values passed through the channel, in order
    sinkCalls,        \* per key, the arguments of the slack.Send calls, in order
    saves,            \* number of SaveReleases calls
    lastSave          \* the last SaveReleases call: whether it succeeded, and the map it was given

vars == <<repositories, IgnoreNonstable, releases, file, pc, idx, nextRepo, log,
          dpc, repository, sendErr, queried, emitted, sinkCalls, saves, lastSave>>

config   == <<repositories, IgnoreNonstable>>
dispatch == <<dpc, repository, sendErr, sinkCalls>>
store    == <<releases, file, saves, lastSave>>

\* The releases files the checker is started on: none, one that cannot
\* be read, one that is no JSON, the JSON null, and a valid one that holds a release of
\* acme/widget older than those the model's queries return, its time
\* written in a zone one hour east of UTC.
InitFiles ==
    { NoFile, Unreadable, Garbage, JSONNull,
      Marshal(MkMap([k \in {"acme/widget"} |->
          MkRepository("acme", "widget", "v1.0.0", [unix |-> 0, offset |-> 1])])) }

\* What main sets up besides the configuration and the file: the Checker
\* is made without a releases map, the channel is unbuffered, nothing
\* has run yet.
Fresh ==
    /\ releases = NilMap
    /\ pc = "start"
    /\ idx = 1
    /\ nextRepo = ZeroRepository
    /\ log = ""
    /\ dpc = "recv"
    /\ repository = ZeroRepository
    /\ sendErr = FALSE
    /\ queried = <<>>
    /\ emitted = [k \in WellFormed |-> <<>>]
    /\ sinkCalls = [k \in WellFormed |-> <<>>]
    /\ saves = 0
    /\ lastSave = [ok |-> FALSE, releases |-> NilMap]

\* main up to the start of the two loops; the watch list is not empty.
Init ==
    /\ repositories \in WatchLists
    /\ IgnoreNonstable \in BOOLEAN
    /\ file \in InitFiles
    /\ Fresh

\* A panic in the Run goroutine ends the process, the receive loop with it.
Alive == pc # "panic"

repoName == repositories[idx]

\* The range loop goes on to the next entry, or Run sleeps after the
\* last; nextRepo of the finished iteration is gone.
Continue ==
    /\ nextRepo' = ZeroRepository
    /\ IF idx < Len(repositories)
       THEN pc' = "loop" /\ idx' = idx + 1
       ELSE pc' = "sleep" /\ idx' = idx

(* ------------------------------------------------------------------ *)
(* Checker.Run                                                        *)
(* ------------------------------------------------------------------ *)

\* Run, before the loop: the releases are loaded when the checker has
\* none; a load error is logged and leaves an empty map.
Load ==
    /\ pc = "start"
    /\ IF releases.nil
       THEN LET r == LoadReleases(file, releases)
            IN  IF r.err
                THEN releases' = EmptyMap /\ log' = "failed to load releases"
                ELSE releases' = r.releases /\ log' = log
       ELSE UNCHANGED <<releases, log>>
    /\ pc' = "loop"
    /\ idx' = 1
    /\ queried' = <<>>
    /\ UNCHANGED <<config, file, saves, lastSave, nextRepo, dispatch, emitted>>

\* s := strings.Split(repoName, "/"); owner, name := s[0], s[1]
\* on an entry without the separator: index out of range.
SplitPanics ==
    /\ pc = "loop"
    /\ Len(Split(repoName)) < 2
    /\ pc' = "panic"
    /\ UNCHANGED <<config, store, idx, nextRepo, log, dispatch, queried, emitted>>

\* What c.query returns without an error for the entry at idx.
QueryResults ==
    { MkRepository(Split(repoName)[1], Split(repoName)[2], c[1], UTC(c[2])) : c \in Catalogue }

\* Mutant of QueryFails: the query of the entry is made again.
QueryFailsRetries ==
    /\ pc = "loop"
    /\ Len(Split(repoName)) >= 2
    /\ queried' = Append(queried, idx)
    /\ log' = "failed to query the repository's releases"
    /\ nextRepo' = ZeroRepository
    /\ \/ pc' = "loop" /\ idx' = idx /\ Len(queried) < Len(repositories)
       \/ IF idx < Len(repositories)
          THEN pc' = "loop" /\ idx' = idx + 1
          ELSE pc' = "sleep" /\ idx' = idx
    /\ UNCHANGED <<config, store, dispatch, emitted>>

\* Mutant of QueryFails: the failure ends the cycle (break for continue).
QueryFailsEndsCycle ==
    /\ pc = "loop"
    /\ Len(Split(repoName)) >= 2
    /\ queried' = Append(queried, idx)
    /\ log' = "failed to query the repository's releases"
    /\ nextRepo' = ZeroRepository
    /\ pc' = "sleep"
    /\ idx' = idx
    /\ UNCHANGED <<config, store, dispatch, emitted>>

\* nextRepo, err := c.query(owner, name) returns an error: a warning is
\* logged and the loop continues with the next entry.
QueryFails ==
    /\ pc = "loop"
    /\ Len(Split(repoName)) >= 2
    /\ queried' = Append(queried, idx)
    /\ log' = "failed to query the repository's releases"
    /\ Continue
    /\ UNCHANGED <<config, store, dispatch, emitted>>

\* c.query returns a Repository: "repository checked" is logged.
QueryReturns ==
    /\ pc = "loop"
    /\ Len(Split(repoName)) >= 2
    /\ queried' = Append(queried, idx)
    /\ nextRepo' \in QueryResults
    /\ log' = "repository checked"
    /\ pc' = "checked"
    /\ idx' = idx
    /\ UNCHANGED <<config, store, dispatch, emitted>>

\* Mutant of StoreAndSave: a failed save takes the store back.
StoreAndSaveRollsBack ==
    /\ \E out \in SaveReleases(Put(releases, repoName, nextRepo), file) :
          /\ releases' = IF out.err THEN releases ELSE Put(releases, repoName, nextRepo)
          /\ file' = out.file
          /\ lastSave' = [ok |-> ~out.err, releases |-> Put(releases, repoName, nextRepo)]
          /\ log' = IF out.err THEN "failed to save releases" ELSE log
    /\ saves' = saves + 1

\* c.releases[repoName] = nextRepo followed by SaveReleases, whose error
\* is logged.
StoreAndSave ==
    /\ releases' = Put(releases, repoName, nextRepo)
    /\ \E out \in SaveReleases(releases', file) :
          /\ file' = out.file
          /\ lastSave' = [ok |-> ~out.err, releases |-> releases']
          /\ log' = IF out.err THEN "failed to save releases" ELSE log
    /\ saves' = saves + 1

\* The map has no entry for the key: the result is stored and saved.
\* Storing into the nil map panics.
Baseline ==
    /\ pc = "checked"
    /\ ~Has(releases, repoName)
    /\ IF releases.nil
       THEN pc' = "panic" /\ UNCHANGED <<store, idx, nextRepo, log>>
       ELSE StoreAndSave /\ Continue
    /\ UNCHANGED <<config, dispatch, queried, emitted>>

\* Mutant of FoundNewer: the result is stored and saved before it is
\* sent.
FoundNewerStoresFirst ==
    /\ pc = "checked"
    /\ Has(releases, repoName)
    /\ After(nextRepo.Release.PublishedAt, releases.m[repoName].Release.PublishedAt)
    /\ releases' = Put(releases, repoName, nextRepo)
    /\ \E out \in SaveReleases(releases', file) :
          /\ file' = out.file
          /\ lastSave' = [ok |-> ~out.err, releases |-> releases']
          /\ log' = IF out.err THEN "failed to save releases" ELSE "new release found"
    /\ saves' = saves + 1
    /\ pc' = "send"
    /\ UNCHANGED <<config, idx, nextRepo, dispatch, queried, emitted>>

\* The result was published after the stored release: "new release
\* found" is logged and Run goes to the channel send.
FoundNewer ==
    /\ pc = "checked"
    /\ Has(releases, repoName)
    /\ After(nextRepo.Release.PublishedAt, releases.m[repoName].Release.PublishedAt)
    /\ log' = "new release found"
    /\ pc' = "send"
    /\ UNCHANGED <<config, store, idx, nextRepo, dispatch, queried, emitted>>

\* Mutant of NotNewer: the result is stored and saved all the same.
NotNewerOverwrites ==
    /\ pc = "checked"
    /\ Has(releases, repoName)
    /\ ~After(nextRepo.Release.PublishedAt, releases.m[repoName].Release.PublishedAt)
    /\ StoreAndSave
    /\ Continue
    /\ UNCHANGED <<config, dispatch, queried, emitted>>

\* The result is not newer than the stored release.
NotNewer ==
    /\ pc = "checked"
    /\ Has(releases, repoName)
    /\ ~After(nextRepo.Release.PublishedAt, releases.m[repoName].Release.PublishedAt)
    /\ log' = "no new release for repository"
    /\ Continue
    /\ UNCHANGED <<config, store, dispatch, queried, emitted>>

\* Mutant of Handoff: the stored release is sent, not the new one.
HandoffSendsStored ==
    /\ pc = "send"
    /\ dpc = "recv"
    /\ repository' = releases.m[repoName]
    /\ emitted' = [emitted EXCEPT ![repoName] = Append(@, releases.m[repoName])]
    /\ sendErr' = FALSE
    /\ pc' = "update"
    /\ dpc' = "filter"
    /\ UNCHANGED <<config, store, idx, nextRepo, log, queried, sinkCalls>>

\* Mutant of Handoff: the channel has a buffer, so the send also
\* completes while the receive loop is busy.
HandoffBuffered ==
    /\ pc = "send"
    /\ emitted' = [emitted EXCEPT ![RepoKey(nextRepo)] = Append(@, nextRepo)]
    /\ pc' = "update"
    /\ IF dpc = "recv"
       THEN repository' = nextRepo /\ sendErr' = FALSE /\ dpc' = "filter"
       ELSE UNCHANGED <<repository, sendErr, dpc>>
    /\ UNCHANGED <<config, store, idx, nextRepo, log, queried, sinkCalls>>

\* releases <- nextRepo meets the receive of "for repository := range
\* releases": the channel has no buffer, so both sides move together.
\* The err of the previous iteration of the receive loop is gone.
Handoff ==
    /\ pc = "send"
    /\ dpc = "recv"
    /\ repository' = nextRepo
    /\ emitted' = [emitted EXCEPT ![RepoKey(nextRepo)] = Append(@, nextRepo)]
    /\ sendErr' = FALSE
    /\ pc' = "update"
    /\ dpc' = "filter"
    /\ UNCHANGED <<config, store, idx, nextRepo, log, queried, sinkCalls>>

\* Mutant of Update: the map is saved without the entry being replaced.
UpdateWithoutStore ==
    /\ pc = "update"
    /\ releases' = releases
    /\ \E out \in SaveReleases(releases, file) :
          /\ file' = out.file
          /\ lastSave' = [ok |-> ~out.err, releases |-> releases]
          /\ log' = IF out.err THEN "failed to save releases" ELSE log
    /\ saves' = saves + 1
    /\ Continue
    /\ UNCHANGED <<config, dispatch, queried, emitted>>

\* After the send: the map entry is replaced and the map saved.
Update ==
    /\ pc = "update"
    /\ StoreAndSave
    /\ Continue
    /\ UNCHANGED <<config, dispatch, queried, emitted>>

\* time.Sleep(interval) returns and the next cycle starts.
Sleep ==
    /\ pc = "sleep"
    /\ pc' = "loop"
    /\ idx' = 1
    /\ queried' = <<>>
    /\ UNCHANGED <<config, store, nextRepo, log, dispatch, emitted>>

engine == <<pc, idx, nextRepo, log, queried>>

(* ------------------------------------------------------------------ *)
(* The receive loop of main                                           *)
(* ------------------------------------------------------------------ *)

\* Mutant of Filtered: the option is not consulted.
FilteredIgnoresOption(r) == IsNonstable(r.Release)

\* c.IgnoreNonstable && repository.Release.IsNonstable()
Filtered(r) == IgnoreNonstable /\ IsNonstable(r.Release)

\* A received non-stable release is dropped when IgnoreNonstable is set.
Skip ==
    /\ Alive
    /\ dpc = "filter"
    /\ Filtered(repository)
    /\ dpc' = "recv"
    /\ repository' = ZeroRepository
    /\ UNCHANGED <<config, store, engine, emitted, sendErr, sinkCalls>>

\* slack.Send(repository) is called.
CallSend ==
    /\ Alive
    /\ dpc = "filter"
    /\ ~Filtered(repository)
    /\ sinkCalls' = [sinkCalls EXCEPT ![RepoKey(repository)] = Append(@, repository)]
    /\ dpc' = "sending"
    /\ UNCHANGED <<config, store, engine, emitted, repository, sendErr>>

\* Mutant of SendReturns: after an error the value is handled again.
SendReturnsRetries ==
    /\ Alive
    /\ dpc = "sending"
    /\ \/ sendErr' = FALSE /\ dpc' = "recv" /\ repository' = ZeroRepository
       \/ sendErr' = TRUE /\ dpc' = "filter" /\ repository' = repository
    /\ UNCHANGED <<config, store, engine, emitted, sinkCalls>>

\* slack.Send returns, with or without an error; either way the loop
\* goes back to the receive, where it has no value.
SendReturns ==
    /\ Alive
    /\ dpc = "sending"
    /\ sendErr' \in BOOLEAN
    /\ dpc' = "recv"
    /\ repository' = ZeroRepository
    /\ UNCHANGED <<config, store, engine, emitted, sinkCalls>>

Next ==
    \/ Load
    \/ SplitPanics
    \/ QueryFails
    \/ QueryReturns
    \/ Baseline
    \/ FoundNewer
    \/ NotNewer
    \/ Handoff
    \/ Update
    \/ Sleep
    \/ Skip
    \/ CallSend
    \/ SendReturns

Spec == Init /\ [][Next]_vars

\* The steps of the Run goroutine; the channel send is one of them.
RunStep ==
    \/ Load
    \/ SplitPanics
    \/ QueryFails
    \/ QueryReturns
    \/ Baseline
    \/ FoundNewer
    \/ NotNewer
    \/ Handoff
    \/ Update
    \/ Sleep

\* The steps of the receive loop between two receives.
ReceiveStep ==
    \/ Skip
    \/ CallSend
    \/ SendReturns

\* Both goroutines are scheduled whenever they can run: c.query,
\* SaveReleases and time.Sleep return, and so does slack.Send.  Whether a
\* query fails or what it returns is not subject to fairness.
SpecFair == Spec /\ WF_vars(RunStep) /\ WF_vars(ReceiveStep)

(* ------------------------------------------------------------------ *)
(* LoadReleases and SaveReleases across runs                          *)
(* ------------------------------------------------------------------ *)

\* The Repository values a releases map can hold for key k.
StoredRepositories(k) ==
    { MkRepository(Split(k)[1], Split(k)[2], n, t) : n \in ReleaseNames, t \in Time }

\* The maps from watched keys to Repository values of that key.
ValidStates ==
    UNION { { MkMap(f) : f \in { g \in [K -> UNION {StoredRepositories(k) : k \in WellFormed}] :
                                   \A k \in K : g[k] \in StoredRepositories(k) } }
            : K \in SUBSET WellFormed }

Reverse(seq) == [i \in 1..Len(seq) |-> seq[Len(seq) + 1 - i]]

\* The releases files of the round trips: no file, no JSON, null, every
\* file SaveReleases writes for a valid state, and the same objects with
\* their members in the opposite order.
RoundTripFiles ==
    {NoFile, Garbage, JSONNull}
        \cup { Marshal(S) : S \in ValidStates }
        \cup { JSONObject(Reverse(Marshal(S).members)) : S \in ValidStates }

InitRoundTrip ==
    /\ repositories = <<"acme/widget", "foo/bar">>
    /\ IgnoreNonstable = FALSE
    /\ file \in RoundTripFiles
    /\ Fresh

\* SaveReleases is called on the map that was loaded.
SaveLoaded ==
    /\ pc = "loop"
    /\ \E out \in SaveReleases(releases, file) :
          /\ file' = out.file
          /\ lastSave' = [ok |-> ~out.err, releases |-> releases]
          /\ log' = IF out.err THEN "failed to save releases" ELSE log
    /\ saves' = 1
    /\ pc' = "saved"
    /\ UNCHANGED <<config, releases, idx, nextRepo, dispatch, queried, emitted>>

\* The process ends and main starts again on the file it left.
Restart ==
    /\ pc = "saved"
    /\ releases' = NilMap
    /\ pc' = "start"
    /\ log' = ""
    /\ UNCHANGED <<config, file, saves, lastSave, idx, nextRepo, dispatch, queried, emitted>>

NextRoundTrip ==
    \/ Load
    \/ SaveLoaded
    \/ Restart

SpecRoundTrip == InitRoundTrip /\ [][NextRoundTrip]_vars

(* ------------------------------------------------------------------ *)
(* Properties                                                         *)
(* ------------------------------------------------------------------ *)

Published(r) == r.Release.PublishedAt.unix

Count(seq, x) == Cardinality({i \in DOMAIN seq : seq[i] = x})

NoEmission == emitted' = emitted /\ pc' # "send" /\ dpc' = dpc

\* Run has finished the entry at idx and is at the next one, or asleep
\* after the last.
MovesOn ==
    IF idx < Len(repositories)
    THEN pc' = "loop" /\ idx' = idx + 1
    ELSE pc' = "sleep"

\* C1 (baseline law): whenever a query has returned a Repository for a
\* key the in-memory releases have no entry for, the next step of Run
\* stores that Repository under the key, calls SaveReleases once, sends
\* nothing on the channel and goes on, whatever the publishedAt is.
C1_BaselineLaw ==
    [][ (pc = "checked" /\ pc' # "checked" /\ ~Has(releases, repoName))
          => /\ Has(releases', repoName)
             /\ releases'.m[repoName] = nextRepo
             /\ saves' = saves + 1
             /\ NoEmission
             /\ MovesOn ]_vars

\* C1, where the releases are a map: the law as stated.
C1_BaselineLawOnMap ==
    [][ (pc = "checked" /\ pc' # "checked" /\ ~Has(releases, repoName) /\ ~releases.nil)
          => /\ Has(releases', repoName)
             /\ releases'.m[repoName] = nextRepo
             /\ saves' = saves + 1
             /\ NoEmission
             /\ MovesOn ]_vars

\* A baseline was stored for foo/bar, which no releases file of Init
\* holds, and nothing was sent for it.
C1_Witness ==
    /\ Has(releases, "foo/bar")
    /\ emitted["foo/bar"] = <<>>
    /\ saves >= 1

\* C2 (strict monotonicity, newer case): a result published after the
\* stored release takes Run to the channel send with nothing emitted or
\* stored yet; the send is the only step that emits, it passes exactly
\* that result to the receive loop, once; and the step after the send
\* stores the result under the key and goes on.
C2_NewerEmitsOnceAndStores ==
    [][ /\ (/\ pc = "checked" /\ pc' # "checked"
            /\ Has(releases, repoName)
            /\ Published(nextRepo) > Published(releases.m[repoName]))
              => /\ pc' = "send"
                 /\ nextRepo' = nextRepo /\ idx' = idx
                 /\ emitted' = emitted /\ releases' = releases
        /\ (pc = "send" /\ pc' # "send")
              => /\ pc' = "update"
                 /\ emitted' = [emitted EXCEPT ![repoName] = Append(@, nextRepo)]
                 /\ repository' = nextRepo
                 /\ nextRepo' = nextRepo /\ idx' = idx
                 /\ releases' = releases
        /\ (pc = "update" /\ pc' # "update")
              => /\ Has(releases', repoName)
                 /\ releases'.m[repoName] = nextRepo
                 /\ emitted' = emitted
                 /\ MovesOn
        /\ (emitted' # emitted) => (pc = "send" /\ pc' = "update") ]_vars

\* foo/bar, which Run stored a baseline for, had one newer release
\* emitted, and the map holds that release at the end of the cycle.
C2_Witness ==
    /\ pc = "sleep"
    /\ Has(releases, "foo/bar")
    /\ emitted["foo/bar"] = <<releases.m["foo/bar"]>>

\* C3 (strict monotonicity, not-newer case): a result whose publishedAt
\* is at most the stored one (equal included) sends nothing, changes no
\* entry of the map, leaves the file alone, calls no SaveReleases, and
\* Run goes on.
C3_NotNewerChangesNothing ==
    [][ (/\ pc = "checked" /\ pc' # "checked"
         /\ Has(releases, repoName)
         /\ Published(nextRepo) <= Published(releases.m[repoName]))
           => /\ NoEmission
              /\ releases' = releases
              /\ file' = file
              /\ saves' = saves /\ lastSave' = lastSave
              /\ MovesOn ]_vars

\* Run has just decided that a result is not newer.
C3_Witness ==
    /\ log = "no new release for repository"
    /\ pc \in {"loop", "sleep"}
    /\ \E k \in WellFormed : Has(releases, k)

\* C4 (isolation): a query that fails changes neither the map nor the
\* file, emits nothing, and Run goes on to the next entry; the entries
\* are queried in list order and a cycle ends only when every entry was
\* queried.
C4_FailedQueryIsIsolated ==
    /\ [][ (/\ pc = "loop" /\ queried' # queried
            /\ log' = "failed to query the repository's releases")
              => /\ releases' = releases /\ file' = file
                 /\ saves' = saves
                 /\ NoEmission
                 /\ MovesOn ]_vars
    /\ [](\A i \in DOMAIN queried : queried[i] = i)
    /\ [](pc = "sleep" => Len(queried) = Len(repositories))

\* In one cycle the query of acme/widget failed (it has no entry yet)
\* and a new release of foo/bar was then found, emitted and stored.
C4_Witness ==
    /\ repositories = <<"acme/widget", "foo/bar">>
    /\ pc = "sleep"
    /\ queried = <<1, 2>>
    /\ ~Has(releases, "acme/widget")
    /\ log = "new release found"
    /\ Len(emitted["foo/bar"]) = 1
    /\ releases.m["foo/bar"] = emitted["foo/bar"][1]

Front(seq) == SubSeq(seq, 1, Len(seq) - 1)

Last(seq) == seq[Len(seq)]

\* The values emitted for key k that the receive loop is done deciding
\* about: all of them, but the one it has just received.
Decided(k) ==
    IF dpc = "filter" /\ RepoKey(repository) = k THEN Front(emitted[k]) ELSE emitted[k]

\* C5 as stated (exactly-once notification): once the receive loop is
\* back at the receive, slack.Send was called exactly once for every
\* release that was emitted.
C5_NotifiedExactlyOnce ==
    dpc = "recv" =>
        \A k \in WellFormed : \A i \in DOMAIN emitted[k] :
            Count(sinkCalls[k], emitted[k][i]) = 1

\* C5 as amended: no release is emitted twice, and slack.Send is called
\* at most once for an emitted release: once the receive loop has decided
\* about it, exactly once when the non-stable filter does not apply to
\* it, and never when IgnoreNonstable is set and the release is
\* non-stable.
C5_NotifiedAtMostOnce ==
    \A k \in WellFormed :
        /\ \A i \in DOMAIN emitted[k] : Count(emitted[k], emitted[k][i]) = 1
        /\ \A i \in DOMAIN emitted[k] :
              Count(sinkCalls[k], emitted[k][i]) =
                 IF /\ i \in DOMAIN Decided(k)
                    /\ ~(IgnoreNonstable /\ IsNonstable(emitted[k][i].Release))
                 THEN 1 ELSE 0

\* With IgnoreNonstable set, two releases of acme/widget were emitted and
\* handled: slack.Send was called for the first and not for the second.
C5_Witness ==
    /\ IgnoreNonstable
    /\ dpc = "recv"
    /\ Len(emitted["acme/widget"]) = 2
    /\ sinkCalls["acme/widget"] = <<emitted["acme/widget"][1]>>

\* C6 as stated: while the receive loop holds a received value (at the
\* filter or inside slack.Send), the map entry of its key equals that
\* value and the file holds the map.
C6_HandledAfterRecorded ==
    dpc \in {"filter", "sending"} =>
        /\ Has(releases, RepoKey(repository))
        /\ releases.m[RepoKey(repository)] = repository
        /\ file = Marshal(releases)

\* C6 as amended: while the receive loop holds a received value, that
\* value is the last one Run sent for its key; the map entry of the key
\* is still the older release as long as Run is in the step after the
\* send, which stores the value, and equals the value from then on; the
\* file holds the map whenever the last SaveReleases succeeded.
C6_HandledAfterHandoff ==
    /\ dpc \in {"filter", "sending"} =>
          LET k == RepoKey(repository) IN
          /\ emitted[k] # <<>> /\ Last(emitted[k]) = repository
          /\ Has(releases, k)
          /\ IF pc = "update" /\ repoName = k /\ nextRepo = repository
             THEN Published(releases.m[k]) < Published(repository)
             ELSE releases.m[k] = repository
    /\ lastSave.ok => file = Marshal(releases)

\* slack.Send is running for a value that Run has sent and not stored yet.
C6_Witness ==
    /\ dpc = "sending"
    /\ pc = "update"
    /\ nextRepo = repository
    /\ releases.m[repoName] # repository

\* C7 (no re-attempt after a failed delivery): when slack.Send returns,
\* with an error or without, the receive loop goes back to the receive
\* without another call; slack.Send is never called twice with the same
\* value; and when a query returns a release that was emitted before,
\* Run does not send it again.
C7_NoRetryAfterFailedDelivery ==
    /\ [][ (dpc = "sending" /\ dpc' # "sending")
              => (dpc' = "recv" /\ sinkCalls' = sinkCalls) ]_vars
    /\ [](\A k \in WellFormed : \A i \in DOMAIN sinkCalls[k] :
              Count(sinkCalls[k], sinkCalls[k][i]) = 1)
    /\ [][ (/\ pc = "checked" /\ pc' # "checked"
            /\ \E i \in DOMAIN emitted[repoName] : emitted[repoName][i] = nextRepo)
              => (pc' # "send" /\ emitted' = emitted) ]_vars

\* slack.Send returned an error for the only release emitted so far, the
\* receive loop is back at the receive, and a later query has returned
\* that release again.
C7_Witness ==
    /\ sendErr
    /\ dpc = "recv"
    /\ pc = "checked"
    /\ emitted[repoName] = <<nextRepo>>
    /\ sinkCalls[repoName] = <<nextRepo>>
    /\ \A k \in WellFormed \ {repoName} : emitted[k] = <<>>

\* C8 (non-stable filter): with IgnoreNonstable set slack.Send is never
\* called with a non-stable release; without it, slack.Send is called
\* with every value the receive loop has decided about; and either way
\* the map entry of a key has caught up with every emitted release once
\* the step after its send is done, and no release is emitted twice.
C8_NonStableFilter ==
    \A k \in WellFormed :
        /\ IgnoreNonstable =>
              \A i \in DOMAIN sinkCalls[k] : ~IsNonstable(sinkCalls[k][i].Release)
        /\ ~IgnoreNonstable => sinkCalls[k] = Decided(k)
        /\ \A i \in DOMAIN emitted[k] :
              /\ Count(emitted[k], emitted[k][i]) = 1
              /\ ~(pc = "update" /\ nextRepo = emitted[k][i])
                    => /\ Has(releases, k)
                       /\ Published(releases.m[k]) >= Published(emitted[k][i])

\* With IgnoreNonstable set, a non-stable release of foo/bar was emitted
\* and dropped by the receive loop, and the map holds it.
C8_Witness ==
    /\ IgnoreNonstable
    /\ dpc = "recv"
    /\ pc \in {"loop", "sleep"}
    /\ Len(emitted["foo/bar"]) = 1
    /\ IsNonstable(emitted["foo/bar"][1].Release)
    /\ sinkCalls["foo/bar"] = <<>>
    /\ releases.m["foo/bar"] = emitted["foo/bar"][1]

\* C9 (backpressure): while Run is at the channel send and the receive
\* loop is not at the receive, no step changes Run's position, the map,
\* the file, the number of saves, the queries of the cycle or what was
\* emitted; and a value is emitted only in a step in which the receive
\* loop takes it, so nothing is ever buffered.
C9_Backpressure ==
    /\ [][ (pc = "send" /\ dpc # "recv")
              => /\ pc' = "send"
                 /\ UNCHANGED <<releases, file, saves, lastSave>>
                 /\ UNCHANGED <<idx, nextRepo, queried, log, emitted>> ]_vars
    /\ [][ (emitted' # emitted)
              => /\ pc = "send" /\ dpc = "recv"
                 /\ dpc' = "filter" /\ repository' = nextRepo ]_vars

\* Run is blocked at the send while slack.Send is running.
C9_Witness ==
    /\ pc = "send"
    /\ dpc = "sending"

\* A releases file as the set of its members; no file is the empty set.
Content(data) == {data.members[i] : i \in DOMAIN data.members}

\* C10 (persistence round trip), under SpecRoundTrip: a run that loads
\* the file a successful SaveReleases wrote has the map that was saved;
\* and a successful SaveReleases of the map loaded from a missing file or
\* a JSON object leaves a JSON object with the same members.
C10_RoundTrip ==
    /\ []((pc = "loop" /\ lastSave.ok) => releases = lastSave.releases)
    /\ [][ (/\ pc = "loop" /\ pc' = "saved" /\ lastSave'.ok
            /\ file.kind \in {"missing", "object"})
              => (file'.kind = "object" /\ Content(file') = Content(file)) ]_vars

\* A map of two keys, one of them with a time in a zone other than UTC,
\* was saved and loaded again by the next run.
C10_Witness ==
    /\ pc = "loop"
    /\ lastSave.ok
    /\ Cardinality(DOMAIN releases.m) = 2
    /\ \E k \in DOMAIN releases.m : releases.m[k].Release.PublishedAt.offset = 1

\* C11 (load outcomes at the start of Run): LoadReleases returns an
\* error exactly for a file that cannot be read or is no JSON.  The step
\* out of the start of Run takes Run to the first entry of the first
\* cycle with nothing queried or saved; on a missing file it leaves an
\* empty map and logs nothing; on an error it logs "failed to load
\* releases" and leaves an empty map.  Run is never at its start again,
\* and it is there only while the checker has no map.
C11_LoadOutcomes ==
    /\ [][ (pc = "start" /\ pc' # "start")
              => /\ pc' = "loop" /\ idx' = 1 /\ queried' = <<>>
                 /\ saves' = 0 /\ file' = file
                 /\ LoadReleases(file, releases).err
                       = (file.kind \in {"unreadable", "garbage"})
                 /\ file.kind = "missing"
                       => (releases' = EmptyMap /\ log' = "")
                 /\ file.kind \in {"unreadable", "garbage"}
                       => (releases' = EmptyMap /\ log' = "failed to load releases")
                 /\ file.kind \in {"null", "object"} => log' = "" ]_vars
    /\ [][ pc' = "start" => pc = "start" ]_vars
    /\ [](pc = "start" => (releases.nil /\ saves = 0 /\ queried = <<>>))

\* The releases file could not be read: Run has logged the error and is
\* at the first entry of the first cycle with an empty map.
C11_Witness ==
    /\ file.kind = "unreadable"
    /\ log = "failed to load releases"
    /\ pc = "loop" /\ idx = 1 /\ queried = <<>>
    /\ releases = EmptyMap

\* C12 (a failed save does not roll back): in a step in which
\* SaveReleases fails, after the baseline store or after the update for
\* a newer release, the map holds the new Repository under the key and
\* every other entry as before, the failure is logged, and Run goes on
\* to the next entry; and after every step in which SaveReleases
\* succeeds, loading the file gives the whole map that is in memory.
C12_FailedSaveKeepsMemory ==
    /\ [][ (saves' = saves + 1 /\ ~lastSave'.ok)
              => /\ pc \in {"checked", "update"}
                 /\ Has(releases', repoName)
                 /\ releases'.m[repoName] = nextRepo
                 /\ DOMAIN releases'.m = DOMAIN releases.m \cup {repoName}
                 /\ \A k \in DOMAIN releases.m \ {repoName} :
                        releases'.m[k] = releases.m[k]
                 /\ log' = "failed to save releases"
                 /\ MovesOn ]_vars
    /\ [][ (saves' = saves + 1 /\ lastSave'.ok)
              => LoadReleases(file', NilMap) = [err |-> FALSE, releases |-> releases'] ]_vars

\* The first save of the run succeeded and the second failed, leaving
\* the file as it was: the map holds two keys, the file one, and Run has
\* finished the cycle.
C12_Witness ==
    /\ pc = "sleep"
    /\ saves = 2
    /\ ~lastSave.ok
    /\ log = "failed to save releases"
    /\ Cardinality(DOMAIN releases.m) = 2
    /\ file.kind = "object" /\ Len(file.members) = 1

\* C13 (a malformed watch key is a per-repository failure): when Run is
\* at an entry of the watch list that has no owner/name separator, its
\* next step logs the warning of a failed query, changes neither the
\* map nor the file, sends nothing, and goes on to the next entry; Run
\* does not end.
C13_MalformedKeyIsIsolated ==
    [][ (/\ pc = "loop" /\ Len(Split(repoName)) < 2
         /\ (pc' # pc \/ idx' # idx \/ log' # log))
           => /\ log' = "failed to query the repository's releases"
              /\ releases' = releases /\ file' = file /\ saves' = saves
              /\ NoEmission
              /\ MovesOn
              /\ pc' # "panic" ]_vars

\* The mapping the file holds: that of a JSON object, and none for a
\* file that is missing, unreadable, no JSON or null.
OnDisk(data) ==
    IF data.kind = "object" THEN Unmarshal(data, NilMap).releases.m ELSE EmptyMap.m

\* The keys whose Repository in memory and in the file differ, a key
\* that only one of them has included.
DiffKeys ==
    { k \in DOMAIN releases.m \cup DOMAIN OnDisk(file) :
         ~(/\ k \in DOMAIN releases.m
           /\ k \in DOMAIN OnDisk(file)
           /\ releases.m[k] = OnDisk(file)[k]) }

\* C14 as stated (write-through bound): in every reachable state the map
\* in memory and the mapping in the file differ in at most one key.
C14_WriteThroughBound == Cardinality(DiffKeys) <= 1

\* C14 as amended: once Run has loaded, every change of the map is
\* followed in the same iteration by a SaveReleases call on the whole
\* map, so the map is what the last SaveReleases call was given; and as
\* long as no save was made or the last one succeeded, the map and the
\* file differ in no key between the steps of Run (in the one key being
\* stored, between the store and the save inside a step).  After a
\* failed save the file is stale or truncated and may differ from the
\* map in every key.
C14_WriteThroughUnlessSaveFailed ==
    /\ saves > 0 => releases = lastSave.releases
    /\ (pc # "start" /\ (saves = 0 \/ lastSave.ok)) => DiffKeys = {}

\* After three saves, the last of them successful, the map holds two
\* keys and a release found later, and the file holds the same.
C14_Witness ==
    /\ saves = 3
    /\ lastSave.ok
    /\ Cardinality(DOMAIN releases.m) = 2
    /\ \E k \in WellFormed : emitted[k] # <<>>
    /\ DiffKeys = {}

EntryEnds == idx' = idx + 1 \/ (pc # "sleep" /\ pc' = "sleep")

\* C16 (cycle structure): the queries of a cycle are those of the
\* entries 1, 2, ... in list order, one each; a query is made only when
\* Run is at the start of an entry with the previous entries queried and
\* nothing of an earlier iteration left; Run leaves an entry only with
\* the failure of its query logged, or its baseline stored and saved, or
\* the sent value stored and saved after the send, or the result found
\* not newer; Run sleeps only when every entry was queried, and the
\* queries of the next cycle start only when the sleep returns.
C16_CycleStructure ==
    /\ [](queried = [i \in 1..Len(queried) |-> i])
    /\ [](Len(queried) <= Len(repositories))
    /\ [][ queried' # queried
              => \/ /\ pc = "loop"
                    /\ Len(queried) = idx - 1
                    /\ queried' = Append(queried, idx)
                    /\ nextRepo = ZeroRepository
                    /\ emitted' = emitted /\ releases' = releases
                    /\ saves' = saves
                 \/ /\ pc = "sleep"
                    /\ Len(queried) = Len(repositories)
                    /\ queried' = <<>>
                    /\ pc' = "loop" /\ idx' = 1 ]_vars
    /\ [][ EntryEnds
              => /\ Len(queried') = idx
                 /\ \/ /\ pc = "loop"
                       /\ log' = "failed to query the repository's releases"
                       /\ releases' = releases /\ saves' = saves
                    \/ /\ pc = "checked"
                       /\ ~Has(releases, repoName)
                       /\ Has(releases', repoName)
                       /\ saves' = saves + 1
                    \/ /\ pc = "update"
                       /\ emitted[repoName] # <<>>
                       /\ Last(emitted[repoName]) = nextRepo
                       /\ releases'.m[repoName] = nextRepo
                       /\ saves' = saves + 1
                    \/ /\ pc = "checked"
                       /\ log' = "no new release for repository"
                       /\ releases' = releases /\ saves' = saves ]_vars
    /\ [][ idx' # idx => (idx' = idx + 1 \/ (pc = "sleep" /\ idx' = 1)) ]_vars
    /\ [](pc = "sleep" => (idx = Len(repositories) /\ Len(queried) = idx))

\* One cycle over a watch list that names foo/bar twice: the first
\* entry stored the baseline, the second found a newer release, which
\* was sent, stored and saved; Run is asleep.
C16_Witness ==
    /\ repositories = <<"foo/bar", "foo/bar">>
    /\ pc = "sleep"
    /\ queried = <<1, 2>>
    /\ saves = 2
    /\ Len(emitted["foo/bar"]) = 1
    /\ log = "new release found"

\* The query of the entry at position i is made infinitely often.
QueriedInfinitelyOften(i) == []<><<queried' = Append(queried, i)>>_vars

\* The Repository values a query of key k can return.
Results(k) ==
    { MkRepository(Split(k)[1], Split(k)[2], c[1], UTC(c[2])) : c \in Catalogue }

\* A query of key k has returned r, newer than the stored release.
FoundNewerFor(k, r) ==
    /\ pc = "checked"
    /\ repoName = k
    /\ nextRepo = r
    /\ Has(releases, k)
    /\ Published(r) > Published(releases.m[k])

\* r was emitted for key k and the map holds it.
EmittedAndStored(k, r) ==
    /\ \E i \in DOMAIN emitted[k] : emitted[k][i] = r
    /\ Has(releases, k)
    /\ releases.m[k] = r

\* C17 (self-healing liveness), under SpecFair: every entry of the watch
\* list is queried infinitely often; and whenever a query, after however
\* many failed ones, returns a release newer than the stored one, that
\* release is eventually emitted and stored.
C17_SelfHealing ==
    /\ \A w \in WatchLists : \A i \in DOMAIN w :
          (repositories = w) => QueriedInfinitelyOften(i)
    /\ \A k \in WellFormed : \A r \in Results(k) :
          FoundNewerFor(k, r) ~> EmittedAndStored(k, r)

\* C17 on the runs in which Run does not panic: the same.
C17_SelfHealingUnlessPanic ==
    []Alive => C17_SelfHealing

\* C18 (per-key monotonicity in one run): no step removes a key from
\* the map or replaces its Repository by one published earlier, and an
\* entry is replaced only by one published later; the values emitted
\* for a key are in strictly increasing order of publishedAt, so none is
\* emitted twice; and the map holds the last value emitted for a key
\* from the step after its send on, whatever the watch list repeats or
\* the queries return.
C18_PerKeyMonotonic ==
    /\ [][ \A k \in WellFormed :
              Has(releases, k)
                 => /\ Has(releases', k)
                    /\ Published(releases'.m[k]) >= Published(releases.m[k])
                    /\ releases'.m[k] # releases.m[k]
                          => Published(releases'.m[k]) > Published(releases.m[k]) ]_vars
    /\ [](\A k \in WellFormed : \A i, j \in DOMAIN emitted[k] :
              i < j => Published(emitted[k][i]) < Published(emitted[k][j]))
    /\ [](\A k \in WellFormed :
              emitted[k] # <<>>
                 => /\ Has(releases, k)
                    /\ \/ releases.m[k] = Last(emitted[k])
                       \/ /\ pc = "update" /\ repoName = k
                          /\ nextRepo = Last(emitted[k])
                          /\ Published(releases.m[k]) < Published(nextRepo))

\* Two releases of a key were emitted, and a later query has returned a
\* release published before the stored one.
C18_Witness ==
    /\ pc = "checked"
    /\ Len(emitted[repoName]) = 2
    /\ Has(releases, repoName)
    /\ releases.m[repoName] = emitted[repoName][2]
    /\ Published(nextRepo) < Published(releases.m[repoName])

\* C19 (usable state after load): whatever the releases file holds, once
\* Run is past its start the checker has a map that can be written, and
\* the store of a baseline does not end Run.
C19_UsableStateAfterLoad ==
    /\ pc # "start" => ~releases.nil
    /\ (pc = "checked" /\ ~Has(releases, repoName)) => ENABLED (Baseline /\ pc' # "panic")

====
